---- MODULE Spec2Model ----
(***************************************************************************)
(* Model of the daily-bar ingestion pipeline: data_fetcher.py (provider    *)
(* listing, per-instrument fetch, formatting), data_storage.py (SQLite     *)
(* table stock_daily, chunked INSERT OR REPLACE, incremental update,       *)
(* restore), data_validator.py (validation report) and main.py (start-up,  *)
(* daily job, restore mode).                                               *)
(*                                                                         *)
(* Instrument codes are 6-digit strings in the source; code n stands for   *)
(* the zero-padded string of n, whose text order is the numeric order.     *)
(* A trade_date is the 8-digit string YYYYMMDD, represented by the number  *)
(* with those digits: text order of 8-digit strings is numeric order.      *)
(* A calendar date is a day ordinal (days since 1970-01-01).               *)
(***************************************************************************)
EXTENDS Integers, Sequences, FiniteSets, TLC

\* ---------------------------------------------------------------- bounds
\* first value of datetime.now(), as a day ordinal: 19722 is 2023-12-31, so
\* that the days of a run cross a month and a year boundary
StartDay == 19722
\* days of history the provider holds before StartDay
HistoryDays == 1
\* number of midnights that pass while the model runs
MaxTicks == 2
\* number of times the process is started
MaxStarts == 2
\* number of daily jobs the scheduler fires
MaxJobs == 2
\* chunk size of save_data (the source's default is 1000 records)
batch_size == 2
\* records a batch of the upsert harness can have beyond one full chunk
MaxExtra == 1
\* number of rows of the tables the harnesses draw
MaxRows == 2

\* ------------------------------------------------------ program constants
DEFAULT_FETCH_DAYS == 365
RESTORE_FETCH_DAYS == 365
INCREMENTAL_DAYS == 1
MIN_RECORDS == 10
PRICE_MAX == 10000
REQUEST_DELAY_MS == 100

Codes == {1, 2}
FirstDay == StartDay - HistoryDays
LastDay == StartDay + MaxTicks
ProviderDays == FirstDay..LastDay

Min(a, b) == IF a < b THEN a ELSE b

\* ------------------------------------------------------------------ dates
\* datetime.strftime('%Y%m%d') of the date with day ordinal d (proleptic
\* Gregorian calendar), as the number YYYYMMDD
Strftime(d) ==
  LET z == d + 719468
      era == z \div 146097
      doe == z - era * 146097
      yoe == (doe - doe \div 1460 + doe \div 36524 - doe \div 146096) \div 365
      doy == doe - (365 * yoe + yoe \div 4 - yoe \div 100)
      mp == (5 * doy + 2) \div 153
      dd == doy - (153 * mp + 2) \div 5 + 1
      m == IF mp < 10 THEN mp + 3 ELSE mp - 9
      y == yoe + era * 400 + (IF m <= 2 THEN 1 ELSE 0)
  IN y * 10000 + m * 100 + dd

\* datetime.now() - timedelta(days=days)
Timedelta(now, days) == now - days

\* --------------------------------------------------------------- provider
\* a cell of a provider DataFrame: a number, a date, a non-numeric /
\* unparsable text, or a null
Num(x) == [k |-> "num", v |-> x]
Date(d) == [k |-> "date", v |-> d]
Text == [k |-> "str", v |-> 0]
Null == [k |-> "null", v |-> 0]

\* the bar the provider holds, in one of two revisions of its data
RawBar(d, v) ==
  [date |-> Date(d), open |-> Num(v), close |-> Num(v + 1), high |-> Num(v + 2),
   low |-> Num(v), volume |-> Num(10 * v), amount |-> Num(100 * v)]

\* the days the provider holds in the requested range: start_date and
\* end_date are YYYYMMDD strings
DaysInRange(start_date, end_date, now) ==
  {d \in ProviderDays : d <= now /\ start_date <= Strftime(d) /\ Strftime(d) <= end_date}

RECURSIVE SetToSeq(_)
SetToSeq(S) ==
  IF S = {} THEN <<>>
  ELSE LET x == CHOOSE y \in S : \A w \in S : y <= w
       IN <<x>> \o SetToSeq(S \ {x})

\* the rows of one response: flaw damages the first row
FlawRow(r, flaw) ==
  CASE flaw = "nullclose" -> [r EXCEPT !.close = Null]
    [] flaw = "textclose" -> [r EXCEPT !.close = Text]
    [] flaw = "nulldate" -> [r EXCEPT !.date = Null]
    [] flaw = "baddate" -> [r EXCEPT !.date = Text]
    [] OTHER -> r

Flaws == {"nullclose", "textclose", "nulldate", "baddate"}

ResponseRows(days, v, flaw) ==
  LET ds == SetToSeq(days)
  IN [i \in 1..Len(ds) |->
        IF i = 1 THEN FlawRow(RawBar(ds[i], v), flaw) ELSE RawBar(ds[i], v)]

\* what ak.stock_zh_a_hist can answer: an exception, an empty frame, a
\* frame without the required columns, or rows
Responses(start_date, end_date, now) ==
  LET days == DaysInRange(start_date, end_date, now)
  IN {[kind |-> "raise", rows |-> <<>>], [kind |-> "empty", rows |-> <<>>]}
     \cup (IF days = {} THEN {}
           ELSE {[kind |-> "badcols", rows |-> ResponseRows(days, 1, "none")]}
                \cup {[kind |-> "rows", rows |-> ResponseRows(days, v, "none")] : v \in {1, 2}}
                \cup {[kind |-> "rows", rows |-> ResponseRows(days, 1, f)] : f \in Flaws})

\* fetch_stock_daily_data: None (here <<>>) on an exception, an empty frame
\* or missing columns; otherwise the frame with the code column added
fetch_stock_daily_data(stock_code, resp) ==
  IF resp.kind = "rows" /\ resp.rows # <<>>
  THEN [i \in 1..Len(resp.rows) |->
          [code |-> stock_code, date |-> resp.rows[i].date, open |-> resp.rows[i].open,
           close |-> resp.rows[i].close, high |-> resp.rows[i].high,
           low |-> resp.rows[i].low, volume |-> resp.rows[i].volume,
           amount |-> resp.rows[i].amount]]
  ELSE <<>>

\* the listings ak.stock_info_a_code_name can return
Listings == {<<1, 2>>, <<2, 1>>, <<1>>, <<>>}

\* -------------------------------------------------------------- formatter
\* pd.to_datetime raises on a text it cannot parse
ToDatetimeRaises(df) == \E i \in 1..Len(df) : df[i].date.k = "str"

\* pd.to_datetime(...).dt.strftime('%Y%m%d'): NaN (here <<>>) for a null
TradeDate(cell) == IF cell.k = "date" THEN <<Strftime(cell.v)>> ELSE <<>>

ToNumericZero(cell) == IF cell.k = "num" THEN <<cell.v>> ELSE <<0>>

\* pd.to_numeric(errors='coerce'): NaN (here <<>>) for what is no number
ToNumeric(cell) == IF cell.k = "num" THEN <<cell.v>> ELSE <<>>

FormatRow(r) ==
  [ts_code |-> <<r.code>>, trade_date |-> TradeDate(r.date),
   open |-> ToNumeric(r.open), high |-> ToNumeric(r.high), low |-> ToNumeric(r.low),
   close |-> ToNumeric(r.close), volume |-> ToNumeric(r.volume),
   amount |-> ToNumeric(r.amount)]

HasNaN(f) ==
  \/ f.trade_date = <<>> \/ f.open = <<>> \/ f.high = <<>> \/ f.low = <<>>
  \/ f.close = <<>> \/ f.volume = <<>> \/ f.amount = <<>>

Record(f) ==
  [ts_code |-> f.ts_code[1], trade_date |-> f.trade_date[1], open |-> f.open[1],
   high |-> f.high[1], low |-> f.low[1], close |-> f.close[1],
   volume |-> f.volume[1], amount |-> f.amount[1]]

\* format_data_for_storage when pd.to_datetime does not raise: rename,
\* convert, dropna
format_data_for_storage(df) ==
  LET f == [i \in 1..Len(df) |-> FormatRow(df[i])]
      kept == SelectSeq(f, LAMBDA x : ~HasNaN(x))
  IN [i \in 1..Len(kept) |-> Record(kept[i])]

\* ---------------------------------------------------------------- storage
\* the table stock_daily is the sequence of its rows in rowid order
KeyOf(r) == <<r.ts_code, r.trade_date>>

InsertNoReplace(rows, rec) == Append(rows, rec)

InsertAccumulate(rows, rec) ==
  LET old == SelectSeq(rows, LAMBDA x : KeyOf(x) = KeyOf(rec))
  IN Append(SelectSeq(rows, LAMBDA x : KeyOf(x) # KeyOf(rec)),
            IF old = <<>> THEN rec ELSE [rec EXCEPT !.volume = old[1].volume + rec.volume])

InsertReplaceCode(rows, rec) ==
  Append(SelectSeq(rows, LAMBDA x : x.ts_code # rec.ts_code), rec)

\* INSERT OR REPLACE under UNIQUE(ts_code, trade_date): the conflicting row
\* is deleted and the new row gets a fresh rowid
InsertOrReplace(rows, rec) ==
  Append(SelectSeq(rows, LAMBDA x : KeyOf(x) # KeyOf(rec)), rec)

RECURSIVE ExecuteMany(_, _)
\* cursor.executemany(insert_sql, batch) inside the open transaction
ExecuteMany(rows, batch) ==
  IF batch = <<>> THEN rows
  ELSE ExecuteMany(InsertOrReplace(rows, Head(batch)), Tail(batch))

RollbackKeep(committed, txn) == txn

\* conn.rollback(): the table is what the last commit left
Rollback(committed, txn) == committed

\* records[i:i+batch_size]
Chunk(recs, i) == SubSeq(recs, i + 1, Min(i + batch_size, Len(recs)))

\* MAX(trade_date) WHERE ts_code = ?, None (here 0) when there is no row
get_latest_date_for_stock(rows, ts_code) ==
  LET ds == {rows[i].trade_date : i \in {j \in 1..Len(rows) : rows[j].ts_code = ts_code}}
  IN IF ds = {} THEN 0 ELSE CHOOSE d \in ds : \A e \in ds : e <= d

\* SELECT DISTINCT ts_code ... ORDER BY ts_code
get_all_stock_codes_from_db(rows) ==
  SetToSeq({rows[i].ts_code : i \in 1..Len(rows)})

check_data_exists_file(file, rows) == file

\* check_data_exists: the file exists and COUNT(*) > 0
check_data_exists(file, rows) == file /\ Len(rows) > 0

DeleteNone(rows) == rows

\* DELETE FROM stock_daily
DeleteAll(rows) == <<>>

PlanWindowLe(latest_date, start_date) ==
  IF latest_date # 0
  THEN IF latest_date <= start_date THEN latest_date ELSE 0
  ELSE start_date

\* the fetch_start of update_incremental_data, 0 for "continue" (skip)
PlanWindow(latest_date, start_date) ==
  IF latest_date # 0
  THEN IF latest_date < start_date THEN latest_date ELSE 0
  ELSE start_date

\* -------------------------------------------------------------- validator
\* a finding: its message carries the tag the validator searches for
Finding(tag, id, n) == [tag |-> tag, id |-> id, n |-> n]
SevereTag == "severe"
IsSevere(issue) == issue.tag = SevereTag

\* trade_date is 8 characters, all digits
WellFormedDate(t) == t >= 10000000 /\ t <= 99999999

\* check_data_integrity; ts_code and trade_date are NOT NULL columns, so the
\* null-key count is 0
check_data_integrity(rows) ==
  LET keys == {KeyOf(rows[i]) : i \in 1..Len(rows)}
      dups == {k \in keys : Cardinality({i \in 1..Len(rows) : KeyOf(rows[i]) = k}) > 1}
      bad == Cardinality({n \in 1..Len(rows) : LET r == rows[n] IN ~WellFormedDate(r.trade_date)})
  IN (IF dups # {} THEN <<Finding("", "duplicates", Cardinality(dups))>> ELSE <<>>)
     \o (IF bad > 0 THEN <<Finding("", "date_format", bad)>> ELSE <<>>)

check_data_correctness_untagged(rows) ==
  LET nonpos == Cardinality({n \in 1..Len(rows) : LET r == rows[n] IN r.open <= 0 \/ r.high <= 0 \/ r.low <= 0 \/ r.close <= 0})
      range == Cardinality({n \in 1..Len(rows) : LET r == rows[n] IN r.high < r.low})
  IN (IF nonpos > 0 THEN <<Finding("", "price_nonpositive", nonpos)>> ELSE <<>>)
     \o (IF range > 0 THEN <<Finding("", "high_lt_low", range)>> ELSE <<>>)

\* check_data_correctness; prices are whole numbers here, so "< 0.01" is
\* "<= 0"
check_data_correctness(rows) ==
  LET nonpos == Cardinality({n \in 1..Len(rows) : LET r == rows[n] IN r.open <= 0 \/ r.high <= 0 \/ r.low <= 0 \/ r.close <= 0})
      range == Cardinality({n \in 1..Len(rows) : LET r == rows[n] IN r.high < r.low})
      extreme == Cardinality({n \in 1..Len(rows) : LET r == rows[n] IN
                   \/ r.open > PRICE_MAX \/ r.high > PRICE_MAX
                   \/ r.low > PRICE_MAX \/ r.close > PRICE_MAX
                   \/ r.open <= 0 \/ r.high <= 0 \/ r.low <= 0 \/ r.close <= 0})
      vol == Cardinality({n \in 1..Len(rows) : LET r == rows[n] IN r.volume < 0})
      amt == Cardinality({n \in 1..Len(rows) : LET r == rows[n] IN r.amount < 0})
  IN (IF nonpos > 0 THEN <<Finding(SevereTag, "price_nonpositive", nonpos)>> ELSE <<>>)
     \o (IF range > 0 THEN <<Finding(SevereTag, "high_lt_low", range)>> ELSE <<>>)
     \o (IF extreme > 0 THEN <<Finding("", "price_range", extreme)>> ELSE <<>>)
     \o (IF vol > 0 THEN <<Finding("", "volume_negative", vol)>> ELSE <<>>)
     \o (IF amt > 0 THEN <<Finding("", "amount_negative", amt)>> ELSE <<>>)

\* check_data_consistency
check_data_consistency(rows, now) ==
  LET codes == {rows[i].ts_code : i \in 1..Len(rows)}
      few == {c \in codes : Cardinality({n \in 1..Len(rows) : LET r == rows[n] IN r.ts_code = c}) < MIN_RECORDS}
      future == Cardinality({n \in 1..Len(rows) : LET r == rows[n] IN r.trade_date > Strftime(now)})
  IN (IF few # {} THEN <<Finding("", "few_records", Cardinality(few))>> ELSE <<>>)
     \o (IF future > 0 THEN <<Finding("", "future_date", future)>> ELSE <<>>)

\* get_detailed_statistics builds a local dict stats without the key
\* 'total_records' and then reads stats['total_records']: at line 286 when
\* there is a distinct trade date, at line 297 otherwise. It raises KeyError.
StatisticsRaises(rows) ==
  LET distinct_dates == Cardinality({rows[i].trade_date : i \in 1..Len(rows)})
  IN IF distinct_dates > 0 THEN TRUE ELSE TRUE

NoStatistics == [total_records |-> <<>>, stock_count |-> <<>>]

NeverEmpty(rows) == FALSE

\* SELECT COUNT(*) FROM stock_daily gives total_count == 0
NoData(rows) == Len(rows) = 0

Report(valid, errors, warnings, statistics) ==
  [is_valid |-> valid, errors |-> errors, warnings |-> warnings, statistics |-> statistics]

\* validate_data
validate_data(file, table, rows, now) ==
  IF ~file THEN Report(FALSE, <<Finding("", "no_file", 0)>>, <<>>, NoStatistics)
  ELSE IF ~table THEN Report(FALSE, <<Finding("", "no_table", 0)>>, <<>>, NoStatistics)
  ELSE IF NoData(rows) THEN Report(FALSE, <<Finding("", "no_data", 0)>>, <<>>, NoStatistics)
  ELSE
    LET stats1 == [NoStatistics EXCEPT !.total_records = <<Len(rows)>>]
        integrity_issues == check_data_integrity(rows)
        correctness_issues == check_data_correctness(rows)
        severe == SelectSeq(correctness_issues, IsSevere)
        consistency_issues == check_data_consistency(rows, now)
        warnings == integrity_issues \o correctness_issues \o consistency_issues
        valid == (severe = <<>>)
    IN IF StatisticsRaises(rows)
       THEN Report(FALSE, severe \o <<Finding("", "exception", 0)>>, warnings, stats1)
       ELSE Report(valid, severe, warnings,
                   [stats1 EXCEPT !.stock_count =
                      <<Cardinality({rows[i].ts_code : i \in 1..Len(rows)})>>])

\* ------------------------------------------------------------------ state
VARIABLES
  pc,          \* position of the process: off, crashed, or a step of main.py
  job,         \* the job in progress or last run: none, bootstrap, daily, restore
  today,       \* datetime.now(), as a day ordinal
  ticks,       \* midnights passed
  ranToday,    \* the 16:00 trigger of today has fired
  starts,      \* times the process was started
  jobs,        \* daily jobs fired
  dbFile,      \* os.path.exists(DB_PATH)
  dbTable,     \* the table stock_daily exists
  db,          \* committed rows of stock_daily
  backupFlag,  \* record count in BACKUP_FLAG_FILE, -1 when there is no file
  stock_codes, \* the list the fetch loop iterates over
  idx,         \* 1-based position in stock_codes
  all_data,    \* frames collected by the fetch loop, concatenated
  records,     \* the records of the save_data call in progress
  save_i,      \* offset i of the chunk loop of save_data
  saveBase,    \* the table when the save_data call began
  failedChunk, \* 1-based number of the chunk that raised, 0 if none
  raised,      \* the exception of the current job: none, directory, format, chunk, marker, purge
  report,      \* the last validation report
  validated,   \* validate_data ran since the current job began
  plans,       \* per instrument, the decision of the current daily job
  fetched,     \* instruments for which the provider was called in this job
  dirFailed,   \* the provider listing raised in this job
  obtained,    \* per instrument, the records its own fetch and format gave in this job
  failedCodes, \* instruments with a fetch, format or store failure in this job
  snap,        \* the table after the first application (upsert harness)
  pass,        \* number of the application in progress (upsert harness)
  frames,      \* per instrument, the frame fetch_stock_daily_data returned in this job
  lastCall,    \* the last of this job's provider fetches and sleeps: none, fetch, sleep
  undelayed,   \* a fetch of this job was issued right after another fetch
  startEmpty,  \* the database was absent or empty when this process started
  listCalls,   \* calls of get_all_stock_codes since this process started
  valRuns,     \* runs of validate_data since the current job began
  jobBase,     \* the table when the current job began
  jobDay       \* the day the current job began

timeVars == <<today, ticks, ranToday>>
dbVars == <<dbFile, dbTable, db, backupFlag>>
loopVars == <<stock_codes, idx, all_data>>
saveVars == <<records, save_i, saveBase, failedChunk>>
histVars == <<plans, fetched, dirFailed, obtained, failedCodes>>
harnessVars == <<snap, pass>>
auditVars == <<frames, lastCall, undelayed, startEmpty, listCalls, valRuns,
               jobBase, jobDay>>
vars == <<pc, job, starts, jobs, raised, report, validated,
          timeVars, dbVars, loopVars, saveVars, histVars, harnessVars, auditVars>>

NoReport == Report(TRUE, <<>>, <<>>, NoStatistics)
NoPlan == [kind |-> "none", start |-> 0, end |-> 0]
NoPlans == [c \in Codes |-> NoPlan]
NoObtained == [c \in Codes |-> <<>>]
NoFrames == [c \in Codes |-> <<>>]

Init ==
  /\ pc = "off" /\ job = "none"
  /\ today = StartDay /\ ticks = 0 /\ ranToday = FALSE
  /\ starts = 0 /\ jobs = 0
  /\ dbFile = FALSE /\ dbTable = FALSE /\ db = <<>> /\ backupFlag = -1
  /\ stock_codes = <<>> /\ idx = 0 /\ all_data = <<>>
  /\ records = <<>> /\ save_i = 0 /\ saveBase = <<>> /\ failedChunk = 0
  /\ raised = "none" /\ report = NoReport /\ validated = FALSE
  /\ plans = NoPlans /\ fetched = {} /\ dirFailed = FALSE
  /\ obtained = NoObtained /\ failedCodes = {}
  /\ snap = <<>> /\ pass = 0
  /\ frames = NoFrames /\ lastCall = "none" /\ undelayed = FALSE
  /\ startEmpty = FALSE /\ listCalls = 0 /\ valRuns = 0
  /\ jobBase = db /\ jobDay = today

\* the history of a job starts empty
ResetJob ==
  /\ raised' = "none" /\ validated' = FALSE /\ failedChunk' = 0
  /\ plans' = NoPlans /\ fetched' = {} /\ dirFailed' = FALSE
  /\ obtained' = NoObtained /\ failedCodes' = {}
  /\ frames' = NoFrames /\ lastCall' = "none" /\ undelayed' = FALSE
  /\ valRuns' = 0 /\ jobBase' = db /\ jobDay' = today

\* where an exception that leaves save_data, fetch_all_stock_data or
\* format_data_for_storage lands: main.py catches it only in daily_job
RaiseTarget(j) ==
  CASE j = "daily" -> "idle"
    [] j = "upsert" -> "u_raised"
    [] OTHER -> "crashed"

\* where control goes when the store step of a job is over
ReturnTarget(j, p) ==
  CASE j = "restore" -> "off"
    [] j = "upsert" -> IF p = 1 THEN "u_once" ELSE "u_twice"
    [] OTHER -> "validate"

\* ------------------------------------------------------------ main.py
\* __main__: python main.py [--restore]
Start(m) ==
  /\ pc \in {"off", "crashed"}
  /\ starts < MaxStarts
  /\ starts' = starts + 1
  /\ job' = IF m = "run" THEN "bootstrap" ELSE "restore"
  /\ pc' = IF m = "run" THEN "initial_setup" ELSE "restore"
  /\ ResetJob
  /\ startEmpty' = FALSE /\ listCalls' = 0
  /\ UNCHANGED <<jobs, report, timeVars, dbVars, loopVars,
                 records, save_i, saveBase, harnessVars>>

\* initial_setup up to the branch: init_database, check_data_exists
InitialSetup ==
  /\ pc = "initial_setup"
  /\ dbFile' = TRUE /\ dbTable' = TRUE
  /\ pc' = IF check_data_exists(dbFile', db) THEN "validate" ELSE "list"
  /\ startEmpty' = (~dbFile \/ db = <<>>)
  /\ UNCHANGED <<frames, lastCall, undelayed, listCalls, valRuns, jobBase, jobDay>>
  /\ UNCHANGED <<job, starts, jobs, raised, report, validated, timeVars, db,
                 backupFlag, loopVars, saveVars, histVars, harnessVars>>

\* get_all_stock_codes raises: nothing between it and the interpreter
\* catches the exception
ListRaise ==
  /\ pc = "list"
  /\ dirFailed' = TRUE /\ raised' = "directory"
  /\ pc' = "crashed"
  /\ listCalls' = listCalls + 1
  /\ UNCHANGED <<frames, lastCall, undelayed, startEmpty, valRuns, jobBase, jobDay>>
  /\ UNCHANGED <<job, starts, jobs, report, validated, timeVars, dbVars,
                 loopVars, saveVars, plans, fetched, obtained, failedCodes,
                 harnessVars>>

\* get_all_stock_codes returns the listing
ListOk ==
  /\ pc = "list"
  /\ \E l \in Listings : stock_codes' = l
  /\ idx' = 1 /\ all_data' = <<>>
  /\ pc' = "fetch_all"
  /\ listCalls' = listCalls + 1
  /\ UNCHANGED <<frames, lastCall, undelayed, startEmpty, valRuns, jobBase, jobDay>>
  /\ UNCHANGED <<job, starts, jobs, raised, report, validated, timeVars,
                 dbVars, saveVars, histVars, harnessVars>>

FetchDays(j) == IF j = "restore" THEN RESTORE_FETCH_DAYS ELSE DEFAULT_FETCH_DAYS

\* one iteration of the loop of fetch_all_stock_data
FetchAllStep ==
  /\ pc = "fetch_all" /\ idx <= Len(stock_codes)
  /\ LET c == stock_codes[idx]
         end_date == Strftime(today)
         start_date == Strftime(Timedelta(today, FetchDays(job)))
     IN \E resp \in Responses(start_date, end_date, today) :
          LET df == fetch_stock_daily_data(c, resp)
          IN /\ all_data' = all_data \o df
             /\ fetched' = fetched \cup {c}
             /\ frames' = [frames EXCEPT ![c] = df]
             /\ failedCodes' = IF resp.kind = "raise" \/ ToDatetimeRaises(df)
                               THEN failedCodes \cup {c} ELSE failedCodes
             /\ obtained' = [obtained EXCEPT ![c] =
                               IF ToDatetimeRaises(df) THEN <<>>
                               ELSE format_data_for_storage(df)]
  /\ idx' = idx + 1
  /\ undelayed' = (undelayed \/ lastCall = "fetch")
  /\ lastCall' = IF REQUEST_DELAY_MS > 0 THEN "sleep" ELSE "fetch"
  /\ UNCHANGED <<startEmpty, listCalls, valRuns, jobBase, jobDay>>
  /\ UNCHANGED <<pc, job, starts, jobs, raised, report, validated, timeVars,
                 dbVars, stock_codes, saveVars, plans, dirFailed, harnessVars>>

\* save_data up to the chunk loop: nothing to do for an empty frame,
\* otherwise sqlite3.connect creates the file
BeginSave(df) ==
  IF df = <<>>
  THEN /\ pc' = ReturnTarget(job, pass)
       /\ UNCHANGED <<dbFile, records, save_i, saveBase>>
  ELSE /\ pc' = "save"
       /\ dbFile' = TRUE
       /\ records' = df /\ save_i' = 0 /\ saveBase' = db

\* the end of fetch_all_stock_data and what initial_setup / restore_all_data
\* do with its result
FetchAllDone ==
  /\ pc = "fetch_all" /\ idx > Len(stock_codes)
  /\ IF all_data = <<>>
     THEN /\ pc' = IF job = "restore" THEN "off" ELSE "validate"
          /\ UNCHANGED <<dbFile, records, save_i, saveBase, raised>>
     ELSE IF ToDatetimeRaises(all_data)
     THEN /\ pc' = "crashed" /\ raised' = "format"
          /\ UNCHANGED <<dbFile, records, save_i, saveBase>>
     ELSE /\ BeginSave(format_data_for_storage(all_data))
          /\ UNCHANGED raised
  /\ UNCHANGED auditVars
  /\ UNCHANGED <<job, starts, jobs, report, validated, timeVars, dbTable, db,
                 backupFlag, loopVars, failedChunk, histVars, harnessVars>>

\* ------------------------------------------------------------ save_data
CodesOf(recs) == {recs[i].ts_code : i \in 1..Len(recs)}

\* one iteration of the chunk loop: executemany, commit
SaveChunkOk ==
  /\ pc = "save" /\ save_i < Len(records)
  /\ dbTable
  /\ db' = ExecuteMany(db, Chunk(records, save_i))
  /\ save_i' = save_i + batch_size
  /\ UNCHANGED auditVars
  /\ UNCHANGED <<pc, job, starts, jobs, raised, report, validated, timeVars,
                 dbFile, dbTable, backupFlag, loopVars, records, saveBase,
                 failedChunk, histVars, harnessVars>>

\* executemany or commit raises after j records of the chunk went into the
\* open transaction: rollback, log, re-raise, close
SaveChunkFail ==
  /\ pc = "save" /\ save_i < Len(records)
  /\ LET batch == Chunk(records, save_i)
     IN /\ \E j \in 0..Len(batch) :
             /\ dbTable \/ j = 0
             /\ db' = Rollback(db, ExecuteMany(db, SubSeq(batch, 1, j)))
        /\ failedCodes' = failedCodes \cup CodesOf(batch)
  /\ failedChunk' = (save_i \div batch_size) + 1
  /\ raised' = "chunk"
  /\ pc' = RaiseTarget(job)
  /\ UNCHANGED auditVars
  /\ UNCHANGED <<job, starts, jobs, report, validated, timeVars, dbFile,
                 dbTable, backupFlag, loopVars, records, save_i, saveBase,
                 plans, fetched, dirFailed, obtained, harnessVars>>

\* all chunks are committed: write the backup flag file and return
SaveFinish ==
  /\ pc = "save" /\ save_i >= Len(records)
  /\ backupFlag' = Len(records)
  /\ pc' = ReturnTarget(job, pass)
  /\ UNCHANGED auditVars
  /\ UNCHANGED <<job, starts, jobs, raised, report, validated, timeVars,
                 dbFile, dbTable, db, loopVars, saveVars, histVars, harnessVars>>

\* writing the backup flag file raises: the rollback finds nothing to undo
SaveMarkerFail ==
  /\ pc = "save" /\ save_i >= Len(records)
  /\ raised' = "marker"
  /\ pc' = RaiseTarget(job)
  /\ UNCHANGED auditVars
  /\ UNCHANGED <<job, starts, jobs, report, validated, timeVars, dbVars,
                 loopVars, saveVars, histVars, harnessVars>>

\* ------------------------------------------------------- validate_data
\* validate_data and print_validation_report, then the scheduler loop
Validate ==
  /\ pc = "validate"
  /\ report' = validate_data(dbFile, dbTable, db, today)
  /\ validated' = TRUE
  /\ pc' = "idle"
  /\ valRuns' = valRuns + 1
  /\ UNCHANGED <<frames, lastCall, undelayed, startEmpty, listCalls, jobBase, jobDay>>
  /\ UNCHANGED <<job, starts, jobs, raised, timeVars, dbVars, loopVars,
                 saveVars, histVars, harnessVars>>

\* ------------------------------------------------------------ scheduler
\* midnight passes while the scheduler sleeps or the process is down
Tick ==
  /\ pc \in {"idle", "off", "crashed"}
  /\ ticks < MaxTicks
  /\ today' = today + 1 /\ ticks' = ticks + 1 /\ ranToday' = FALSE
  /\ UNCHANGED auditVars
  /\ UNCHANGED <<pc, job, starts, jobs, raised, report, validated, dbVars,
                 loopVars, saveVars, histVars, harnessVars>>

\* schedule.run_pending fires daily_job; update_incremental_data up to its
\* loop
DailyJob ==
  /\ pc = "idle" /\ job \in {"bootstrap", "daily"}
  /\ ~ranToday /\ jobs < MaxJobs
  /\ ranToday' = TRUE /\ jobs' = jobs + 1
  /\ job' = "daily"
  /\ ResetJob
  /\ LET codes == get_all_stock_codes_from_db(db)
     IN IF ~dbFile \/ codes = <<>>
        THEN /\ pc' = "validate"
             /\ UNCHANGED loopVars
        ELSE /\ pc' = "incr"
             /\ stock_codes' = codes /\ idx' = 1 /\ all_data' = <<>>
  /\ UNCHANGED <<startEmpty, listCalls>>
  /\ UNCHANGED <<starts, report, today, ticks, dbVars, records, save_i,
                 saveBase, harnessVars>>

\* an iteration of the loop of update_incremental_data that skips the
\* instrument
IncrSkip ==
  /\ pc = "incr" /\ idx <= Len(stock_codes)
  /\ LET c == stock_codes[idx]
         start_date == Strftime(Timedelta(today, INCREMENTAL_DAYS))
         fetch_start == PlanWindow(get_latest_date_for_stock(db, c), start_date)
     IN /\ fetch_start = 0
        /\ plans' = [plans EXCEPT ![c] = [kind |-> "skip", start |-> 0, end |-> 0]]
  /\ idx' = idx + 1
  /\ UNCHANGED auditVars
  /\ UNCHANGED <<pc, job, starts, jobs, raised, report, validated, timeVars,
                 dbVars, stock_codes, all_data, saveVars, fetched, dirFailed,
                 obtained, failedCodes, harnessVars>>

\* an iteration that fetches: an exception of the formatter is caught and
\* logged inside the loop
IncrFetch ==
  /\ pc = "incr" /\ idx <= Len(stock_codes)
  /\ LET c == stock_codes[idx]
         end_date == Strftime(today)
         start_date == Strftime(Timedelta(today, INCREMENTAL_DAYS))
         fetch_start == PlanWindow(get_latest_date_for_stock(db, c), start_date)
     IN /\ fetch_start # 0
        /\ plans' = [plans EXCEPT ![c] =
                       [kind |-> "fetch", start |-> fetch_start, end |-> end_date]]
        /\ fetched' = fetched \cup {c}
        /\ \E resp \in Responses(fetch_start, end_date, today) :
             LET df == fetch_stock_daily_data(c, resp)
                 formatted_df == IF ToDatetimeRaises(df) THEN <<>>
                                 ELSE format_data_for_storage(df)
             IN /\ all_data' = all_data \o formatted_df
                /\ frames' = [frames EXCEPT ![c] = df]
                /\ obtained' = [obtained EXCEPT ![c] = formatted_df]
                /\ failedCodes' = IF resp.kind = "raise" \/ ToDatetimeRaises(df)
                                  THEN failedCodes \cup {c} ELSE failedCodes
  /\ idx' = idx + 1
  /\ undelayed' = (undelayed \/ lastCall = "fetch")
  /\ lastCall' = "fetch"
  /\ UNCHANGED <<startEmpty, listCalls, valRuns, jobBase, jobDay>>
  /\ UNCHANGED <<pc, job, starts, jobs, raised, report, validated, timeVars,
                 dbVars, stock_codes, saveVars, dirFailed, harnessVars>>

\* after the loop: save_data(pd.concat(all_new_data)) or "nothing to update"
IncrDone ==
  /\ pc = "incr" /\ idx > Len(stock_codes)
  /\ BeginSave(all_data)
  /\ UNCHANGED auditVars
  /\ UNCHANGED <<job, starts, jobs, raised, report, validated, timeVars,
                 dbTable, db, backupFlag, loopVars, failedChunk, histVars,
                 harnessVars>>

\* ------------------------------------------------------------ restore
\* restore_all_data up to the fetch: DELETE FROM stock_daily when the
\* database file exists
RestorePurge ==
  /\ pc = "restore"
  /\ IF dbFile /\ ~dbTable
     THEN /\ pc' = "crashed" /\ raised' = "purge"
          /\ UNCHANGED db
     ELSE /\ pc' = "list"
          /\ db' = IF dbFile THEN DeleteAll(db) ELSE db
          /\ UNCHANGED raised
  /\ UNCHANGED auditVars
  /\ UNCHANGED <<job, starts, jobs, report, validated, timeVars, dbFile,
                 dbTable, backupFlag, loopVars, saveVars, histVars, harnessVars>>

Next ==
  \/ \E m \in {"run", "restore"} : Start(m)
  \/ InitialSetup
  \/ ListRaise
  \/ ListOk
  \/ FetchAllStep
  \/ FetchAllDone
  \/ SaveChunkOk
  \/ SaveChunkFail
  \/ SaveFinish
  \/ SaveMarkerFail
  \/ Validate
  \/ Tick
  \/ DailyJob
  \/ IncrSkip
  \/ IncrFetch
  \/ IncrDone
  \/ RestorePurge

Spec == Init /\ [][Next]_vars

TypeOK ==
  /\ pc \in {"off", "crashed", "initial_setup", "list", "fetch_all", "save",
             "validate", "idle", "incr", "restore", "u_once", "u_twice", "u_raised"}
  /\ job \in {"none", "bootstrap", "daily", "restore", "upsert", "validator"}

\* ---------------------------------------------------------------- harnesses
\* the record the pipeline makes of revision v of the bar of day d
BarRecord(c, d, v) ==
  format_data_for_storage(
    fetch_stock_daily_data(c, [kind |-> "rows", rows |-> <<RawBar(d, v)>>]))[1]

SeqsUpTo(S, n) == UNION {[1..k -> S] : k \in 0..n}

UniqueKeys(rows) ==
  \A i, j \in 1..Len(rows) : KeyOf(rows[i]) = KeyOf(rows[j]) => i = j

Content(rows) == {rows[i] : i \in 1..Len(rows)}
Keys(rows) == {KeyOf(rows[i]) : i \in 1..Len(rows)}

\* everything but the inputs of a harness is as in Init
Quiet ==
  /\ ticks = 0 /\ ranToday = FALSE /\ starts = 0 /\ jobs = 0
  /\ backupFlag = -1 /\ all_data = <<>>
  /\ save_i = 0 /\ saveBase = <<>> /\ failedChunk = 0
  /\ raised = "none" /\ report = NoReport /\ validated = FALSE
  /\ plans = NoPlans /\ fetched = {} /\ dirFailed = FALSE
  /\ obtained = NoObtained /\ failedCodes = {}
  /\ snap = <<>> /\ pass = 0
  /\ frames = NoFrames /\ lastCall = "none" /\ undelayed = FALSE
  /\ startEmpty = FALSE /\ listCalls = 0 /\ valRuns = 0
  /\ jobBase = db /\ jobDay = today

\* -- save_data applied twice to the same batch, from any table
UpsertRecords ==
  {BarRecord(1, StartDay, 1), BarRecord(1, StartDay, 2),
   BarRecord(1, StartDay + 1, 1), BarRecord(2, StartDay, 1)}

UpsertInit ==
  /\ pc = "u_call" /\ job = "upsert"
  /\ today = StartDay + 1
  /\ dbFile = TRUE /\ dbTable = TRUE
  /\ db \in {t \in SeqsUpTo(UpsertRecords, MaxRows) : UniqueKeys(t)}
  /\ records \in SeqsUpTo(UpsertRecords, batch_size + MaxExtra)
  /\ stock_codes = <<>> /\ idx = 0
  /\ Quiet

\* the harness calls save_data(records), a first and a second time
UpsertCall ==
  /\ pc \in {"u_call", "u_once"}
  /\ pass' = pass + 1
  /\ snap' = db
  /\ saveBase' = db /\ save_i' = 0
  /\ pc' = IF records = <<>> THEN ReturnTarget(job, pass + 1) ELSE "save"
  /\ UNCHANGED auditVars
  /\ UNCHANGED <<job, starts, jobs, raised, report, validated, timeVars,
                 dbVars, loopVars, records, failedChunk, histVars>>

UpsertNext ==
  \/ UpsertCall
  \/ SaveChunkOk
  \/ SaveChunkFail
  \/ SaveFinish
  \/ SaveMarkerFail

UpsertSpec == UpsertInit /\ [][UpsertNext]_vars

\* -- the loop body of update_incremental_data, from any table and list
PlannerRecords == {BarRecord(c, d, 1) : c \in Codes, d \in ProviderDays}

PlannerInit ==
  /\ pc = "incr" /\ job = "daily"
  /\ today \in StartDay..LastDay
  /\ dbFile = TRUE /\ dbTable = TRUE
  /\ db \in {t \in SeqsUpTo(PlannerRecords, MaxRows) :
               /\ UniqueKeys(t)
               /\ \A i \in 1..Len(t) : t[i].trade_date <= Strftime(today)}
  /\ stock_codes \in {<<1>>, <<2>>, <<1, 2>>, <<2, 1>>} /\ idx = 1
  /\ records = <<>>
  /\ Quiet

PlannerNext ==
  \/ IncrSkip
  \/ IncrFetch

PlannerSpec == PlannerInit /\ [][PlannerNext]_vars

\* -- validate_data applied to any table
Shape(o, h, l, c, v, a) ==
  [open |-> o, high |-> h, low |-> l, close |-> c, volume |-> v, amount |-> a]

Shapes ==
  {Shape(1, 3, 1, 2, 10, 100), Shape(1, 3, 1, -1, 10, 100), Shape(0, 3, 1, 2, 10, 100),
   Shape(2, 1, 2, 2, 10, 100), Shape(1, 3, 1, 2, -1, 100), Shape(1, 3, 1, 2, 10, -1),
   Shape(1, PRICE_MAX + 1, 1, 2, 10, 100)}

\* trade dates of the validator harness: today, tomorrow, and a string of 7
\* digits
ValidatorDates == {Strftime(StartDay), Strftime(StartDay + 1), 2024011}

ValidatorRecords ==
  {[ts_code |-> c, trade_date |-> t, open |-> sh.open, high |-> sh.high,
    low |-> sh.low, close |-> sh.close, volume |-> sh.volume, amount |-> sh.amount] :
     c \in Codes, t \in ValidatorDates, sh \in Shapes}

ValidateInit ==
  /\ pc = "validate" /\ job = "validator"
  /\ today = StartDay
  /\ dbFile \in BOOLEAN /\ dbTable \in BOOLEAN
  /\ dbTable => dbFile
  /\ db \in IF dbTable
            THEN {t \in SeqsUpTo(ValidatorRecords, MaxRows) : UniqueKeys(t)}
            ELSE {<<>>}
  /\ stock_codes = <<>> /\ idx = 0
  /\ records = <<>>
  /\ Quiet

ValidateNext == Validate

ValidateSpec == ValidateInit /\ [][ValidateNext]_vars

\* ------------------------------------------------------------------ claims

\* C1: after any sequence of bootstrap, daily-job, recovery and save_data
\* operations, chunk failures included, the table holds at most one row per
\* (ts_code, trade_date).
C1_UniqueKey == UniqueKeys(db)

\* a daily job re-ingested a stored key with other values in its first chunk
\* and its second chunk failed
C1_Witness ==
  /\ job = "daily" /\ raised = "chunk" /\ failedChunk = 2
  /\ \E i \in 1..batch_size : \E j \in 1..Len(saveBase) :
       /\ KeyOf(records[i]) = KeyOf(saveBase[j])
       /\ records[i] # saveBase[j]

\* C2: applying save_data to the same batch a second time leaves the keys,
\* the row count and the values of every row as the first application left
\* them.
C2_IdempotentUpsert ==
  pc = "u_twice" =>
    /\ Keys(db) = Keys(snap)
    /\ Len(db) = Len(snap)
    /\ Content(db) = Content(snap)

\* the batch spans two chunks, repeats a key with other values, and was
\* applied twice
C2_Witness ==
  /\ pc = "u_twice"
  /\ Len(records) > batch_size
  /\ \E i, j \in 1..Len(records) :
       i < j /\ KeyOf(records[i]) = KeyOf(records[j]) /\ records[i] # records[j]

\* the records of the chunks before chunk k
Committed(recs, k) == SubSeq(recs, 1, Min((k - 1) * batch_size, Len(recs)))

\* the last record of recs with the key of r
LastWithKey(recs, key) ==
  recs[CHOOSE i \in 1..Len(recs) :
         /\ KeyOf(recs[i]) = key
         /\ \A j \in 1..Len(recs) : KeyOf(recs[j]) = key => j <= i]

\* C3: when chunk k of a save_data call fails, the exception reaches the
\* caller, every key of chunks 1..k-1 is stored with the values its last
\* record in those chunks gave it, and every other row is the row the table
\* had before the call: nothing of chunk k or a later chunk was written.
C3_ChunkDurability ==
  raised = "chunk" =>
    LET done == Committed(records, failedChunk)
    IN /\ pc = "u_raised"
       /\ \A key \in Keys(done) : LastWithKey(done, key) \in Content(db)
       /\ \A r \in Content(db) : KeyOf(r) \in Keys(done) \/ r \in Content(saveBase)
       /\ \A r \in Content(saveBase) : KeyOf(r) \in Keys(done) \/ r \in Content(db)
       /\ UniqueKeys(db)

\* the second chunk failed: the first chunk is stored and a record of the
\* second chunk has a key the table does not hold
C3_Witness ==
  /\ raised = "chunk" /\ failedChunk = 2 /\ pc = "u_raised"
  /\ \A i \in 1..batch_size : records[i] \in Content(db)
  /\ \E i \in (batch_size + 1)..Len(records) : KeyOf(records[i]) \notin Keys(db)

\* the calendar date a trade_date string denotes
DayOf(t) == CHOOSE d \in (FirstDay - 1)..LastDay : Strftime(d) = t

\* C4: in the daily job, with latest the latest stored date of an instrument
\* and windowStart = today - lookbackDays, the instrument is fetched from
\* windowStart to today when it has no stored date, from latest to today
\* when latest is before windowStart, and is skipped, with no provider call,
\* otherwise.
C4_IncrementalPlan ==
  \A c \in Codes :
    (pc = "incr" /\ plans[c].kind # "none") =>
      LET dates == {db[i].trade_date : i \in {j \in 1..Len(db) : db[j].ts_code = c}}
          latest == CHOOSE d \in {DayOf(t) : t \in dates} :
                      \A t \in dates : DayOf(t) <= d
          windowStart == today - INCREMENTAL_DAYS
      IN IF dates = {}
         THEN plans[c] = [kind |-> "fetch", start |-> Strftime(windowStart),
                          end |-> Strftime(today)]
         ELSE IF latest < windowStart
         THEN plans[c] = [kind |-> "fetch", start |-> Strftime(latest),
                          end |-> Strftime(today)]
         ELSE plans[c].kind = "skip" /\ c \notin fetched

\* on 2024-01-02 an instrument stored up to 2023-12-31 is fetched from
\* 2023-12-31, and another one, stored up to 2024-01-01, is skipped
C4_Witness ==
  /\ pc = "incr"
  /\ \E c, e \in Codes :
       /\ plans[c].kind = "fetch" /\ plans[c].start = 20231231
       /\ plans[c].end = 20240102
       /\ get_latest_date_for_stock(db, e) = 20240101
       /\ plans[e].kind = "skip"

\* C5: when the save_data call of a daily job raises on a chunk, the job
\* still runs validate_data before it returns to the scheduler loop.
C5_ValidatesAfterWriteFailure ==
  (job = "daily" /\ pc = "idle" /\ raised = "chunk") => validated

\* C6: when the provider listing fails during bootstrap, the process does
\* not crash.
C6_DirectoryFailureSurvived ==
  (job = "bootstrap" /\ dirFailed) => pc # "crashed"

JobOver == pc \in {"idle", "off", "crashed"} /\ job \in {"bootstrap", "daily", "restore"}

\* C7: when a job is over, the records obtained for an instrument that had
\* no fetch, format or store failure of its own are stored, whatever failed
\* for the other instruments of the job.
C7_InstrumentIsolation ==
  (JobOver /\ failedCodes # {}) =>
    \A c \in Codes \ failedCodes :
      \A i \in 1..Len(obtained[c]) : obtained[c][i] \in Content(db)

HasNonPositivePrice(rows) ==
  \E r \in Content(rows) : r.open <= 0 \/ r.high <= 0 \/ r.low <= 0 \/ r.close <= 0

HasHighBelowLow(rows) == \E r \in Content(rows) : r.high < r.low

InErrors(id) == \E i \in 1..Len(report.errors) : report.errors[i].id = id

\* C8: when the table holds a row with a non-positive open, high, low or
\* close, or a row with high < low, validate_data returns is_valid = false
\* and the finding is in the errors of the report.
C8_HighSeverityFails ==
  validated =>
    /\ HasNonPositivePrice(db) => ~report.is_valid /\ InErrors("price_nonpositive")
    /\ HasHighBelowLow(db) => ~report.is_valid /\ InErrors("high_lt_low")

\* a table with a row of close = -1 and a row of high < low was validated
C8_Witness ==
  /\ validated
  /\ \E r \in Content(db) : r.close = -1
  /\ \E r \in Content(db) : r.high < r.low /\ r.close > 0
  /\ InErrors("price_nonpositive") /\ InErrors("high_lt_low")

\* C9: for a non-empty table with no high-severity finding, validate_data
\* returns is_valid = true and no errors, whatever warnings it has.
C9_WarningsDoNotFail ==
  (validated /\ dbTable /\ Len(db) > 0
     /\ ~HasNonPositivePrice(db) /\ ~HasHighBelowLow(db)) =>
    report.is_valid /\ report.errors = <<>>

\* C10: after a bootstrap from an empty table in which the provider listed
\* two instruments and gave N valid bars for each, the table holds 2N rows,
\* the known instruments are the two codes in ascending order, and the
\* report is valid with total_records = 2N.
C10_EndToEndBootstrap ==
  (/\ job = "bootstrap" /\ pc = "idle" /\ validated
   /\ saveBase = <<>> /\ Len(stock_codes) = 2
   /\ raised = "none" /\ failedCodes = {}
   /\ Len(obtained[1]) > 0 /\ Len(obtained[2]) = Len(obtained[1])) =>
    LET N == Len(obtained[1])
    IN /\ Len(db) = 2 * N
       /\ get_all_stock_codes_from_db(db) = <<1, 2>>
       /\ report.is_valid
       /\ report.statistics.total_records = <<2 * N>>

\* a provider row with a date and a number in every numeric column
WellFormedRow(r) ==
  /\ r.date.k = "date"
  /\ r.open.k = "num" /\ r.high.k = "num" /\ r.low.k = "num"
  /\ r.close.k = "num" /\ r.volume.k = "num" /\ r.amount.k = "num"

\* the DailyBar a well-formed provider row stands for
ExpectedRecord(r) ==
  [ts_code |-> r.code, trade_date |-> Strftime(r.date.v), open |-> r.open.v,
   high |-> r.high.v, low |-> r.low.v, close |-> r.close.v,
   volume |-> r.volume.v, amount |-> r.amount.v]

\* the provider rows of the frames of the current job
FrameRows == UNION {{frames[c][i] : i \in 1..Len(frames[c])} : c \in Codes}

\* the fetch results of the current job went through format and store
\* without an exception
StoreDone ==
  /\ pc \in {"validate", "idle", "off"}
  /\ job \in {"bootstrap", "daily", "restore"}
  /\ raised = "none"

\* C11: when the frames of a job hold rows with a missing (null) cell or a
\* cell that is no number next to well-formed rows, the formatter does not
\* raise, every well-formed row is stored, and nothing else is written:
\* the malformed rows are dropped.
C11_RejectionIsolation ==
  /\ raised = "format" => \E r \in FrameRows : r.date.k = "str"
  /\ (StoreDone /\ \A r \in FrameRows : r.date.k # "str") =>
       /\ \A r \in FrameRows : WellFormedRow(r) => ExpectedRecord(r) \in Content(db)
       /\ Content(db) \ Content(jobBase) \subseteq
            {ExpectedRecord(r) : r \in {x \in FrameRows : WellFormedRow(x)}}

\* a bootstrap fetched a frame with a row without close and a well-formed
\* row, and stored exactly the well-formed rows
C11_Witness ==
  /\ StoreDone /\ job = "bootstrap" /\ pc = "idle"
  /\ \E c \in Codes :
       /\ Len(frames[c]) >= 2
       /\ frames[c][1].close.k = "null"
       /\ WellFormedRow(frames[c][2])
       /\ ExpectedRecord(frames[c][2]) \in Content(db)
  /\ Len(db) = Cardinality({r \in FrameRows : WellFormedRow(r)})
  /\ Len(db) < Cardinality(FrameRows)

\* C12: within every job, no provider fetch is issued right after another
\* provider fetch: the inter-request delay lies between them.
C12_DelayBetweenFetches == ~undelayed

\* C13: when the database file is absent, the table is missing or the table
\* holds no row, validate_data returns is_valid = false with exactly one
\* error, and no other check runs: no warnings and no statistics.
C13_ExistenceShortCircuit ==
  (validated /\ (~dbFile \/ ~dbTable \/ Len(db) = 0)) =>
    /\ ~report.is_valid
    /\ Len(report.errors) = 1
    /\ report.errors[1].id =
         (IF ~dbFile THEN "no_file" ELSE IF ~dbTable THEN "no_table" ELSE "no_data")
    /\ report.warnings = <<>>
    /\ report.statistics = NoStatistics

\* an existing, empty table was validated
C13_Witness ==
  /\ validated /\ dbFile /\ dbTable /\ db = <<>>
  /\ report.errors = <<Finding("", "no_data", 0)>>

\* C14: a step that is not part of a recovery never removes a stored key:
\* every (ts_code, trade_date) in the table before the step is in the table
\* after it.
C14_KeysOnlyGrow ==
  [][job' # "restore" => Keys(db) \subseteq Keys(db')]_vars

\* a daily job added keys to a populated table in its first chunk, its
\* second chunk failed, and every key of before the job is still stored
C14_Witness ==
  /\ job = "daily" /\ raised = "chunk" /\ failedChunk = 2
  /\ jobBase # <<>>
  /\ Keys(jobBase) \subseteq Keys(db)
  /\ Keys(db) # Keys(jobBase)

RunMode == job \in {"bootstrap", "daily"}

\* C15: a process started in normal mode calls the full fetch exactly when
\* the database was absent or empty at start-up, never calls it a second
\* time, not in a daily job either, and has run validate_data exactly once
\* when the scheduler loop is entered.
C15_BootstrapModeSelection ==
  /\ (RunMode /\ pc \notin {"initial_setup", "list"}) => (listCalls = 1 <=> startEmpty)
  /\ RunMode => listCalls <= 1
  /\ job = "daily" => pc \notin {"list", "fetch_all"}
  /\ (job = "bootstrap" /\ pc = "idle") => valRuns = 1

\* a process started on a populated table skipped the fetch, validated once
\* and idles
C15_Witness ==
  /\ job = "bootstrap" /\ pc = "idle"
  /\ ~startEmpty /\ listCalls = 0 /\ valRuns = 1
  /\ Len(db) > 0

\* the records the refetch of the current job produced
Refetched == {ExpectedRecord(r) : r \in {x \in FrameRows : WellFormedRow(x)}}

\* the refetch of the current job failed or produced nothing
RefetchFailed == dirFailed \/ raised \in {"format", "purge"} \/ Refetched = {}

\* C16: in a recovery no provider call is made before the table is purged,
\* and when the recovery is over the table holds exactly the records the
\* refetch produced, and is empty when the refetch produced nothing or
\* failed.
C16_RecoveryExact ==
  /\ (job = "restore" /\ pc \in {"list", "fetch_all"}) => db = <<>>
  /\ (job = "restore" /\ pc \in {"off", "crashed"}) =>
       IF RefetchFailed THEN db = <<>> ELSE Content(db) = Refetched

\* every provider fetch of the current job returned well-formed rows
AllFetchesSucceeded ==
  \A c \in fetched :
    frames[c] # <<>> /\ \A i \in 1..Len(frames[c]) : WellFormedRow(frames[c][i])

\* C17: when a daily job is over with every provider fetch and the store
\* succeeding, then for every instrument the table knew when the job began,
\* every bar the provider holds dated after the instrument's latest stored
\* date of then and up to the day of the job is stored.
C17_DailyJobUpToDate ==
  (job = "daily" /\ pc = "idle" /\ validated /\ raised = "none"
     /\ AllFetchesSucceeded) =>
    \A c \in CodesOf(jobBase) :
      \A d \in ProviderDays :
        (Strftime(d) > get_latest_date_for_stock(jobBase, c) /\ d <= jobDay)
          => <<c, Strftime(d)>> \in Keys(db)

====
